---------------------------- MODULE Spec2Model ----------------------------
(***************************************************************************)
(* The whisper-stt sidecar: the control loop of main.cpp, the capture      *)
(* object of audio.cpp and the streaming engine of inference.cpp.          *)
(*                                                                         *)
(* Three threads: the main thread (start_engine / stop_engine), the audio  *)
(* backend's callback thread (data_callback -> add_audio) and the worker   *)
(* thread (InferenceEngine::run).  Every section of code that runs under   *)
(* audio_mutex is one atomic action; the rest of run() is one action per   *)
(* statement group between two points where another thread, or the clock,  *)
(* can be seen.  work_buf is kept from the snapshot to whisper_full, its   *)
(* last reader: the next snapshot overwrites it before anything reads it.  *)
(*                                                                         *)
(* Scaling.  A model sample stands for a block of 4000 samples of the      *)
(* 16 kHz stream, so sample_rate is 4 blocks per second, and the retention *)
(* cap is 2 seconds instead of 60.  Every derived quantity is computed     *)
(* from these two exactly as the code computes it.  Amplitudes are in      *)
(* units of 0.001, time is in milliseconds.  The properties below hold     *)
(* as well at sample_rate 5 with a 3-second cap (15.5 million states).     *)
(***************************************************************************)
EXTENDS Integers, Sequences, FiniteSets, TLC

\* ------------------------------------------------------------ constants
sample_rate == 4
MAX_BUFFER_SECONDS == 2
SILENCE_THRESHOLD_MS == 700
WAIT_TIMEOUT_MS == 400
ENERGY_THRESHOLD == 3

\* ------------------------------------------------------------ bounds
\* longest frame one audio callback delivers
MaxFrame == 2
\* granularity of the clock
TickMs == 350
\* how often the sound at the microphone changes level while one capture runs
MaxLevelChanges == 1

\* where the count of final results since the last voice stops
MaxFinals == 2

\* amplitudes a sample can take: one below the threshold, one exactly on it
Quiet == ENERGY_THRESHOLD - 1
Loud == ENERGY_THRESHOLD
Amplitudes == {Quiet, Loud}

\* texts the decoder can return
Texts == {"", "words"}

Min(a, b) == IF a < b THEN a ELSE b

\* the frames pcm_data ranges over: 1..MaxFrame samples at one level
Frames == {[i \in 1..n |-> a] : n \in 1..MaxFrame, a \in Amplitudes}

\* ------------------------------------------------------------ derived sizes
max_samples == MAX_BUFFER_SECONDS * sample_rate
one_second_samples == sample_rate
\* a minimum chunk longer than the one-second overlap
min_chunk_samples_two_seconds == 2 * sample_rate
min_chunk_samples == sample_rate \div 2
\* (size_t)(impl->sample_rate * 0.3)
vad_window_cap == (sample_rate * 3) \div 10

\* ------------------------------------------------------------ pure helpers
RECURSIVE SumSq(_)
SumSq(s) == IF s = <<>> THEN 0 ELSE Head(s) * Head(s) + SumSq(Tail(s))

\* the last n elements of s (all of s when it is shorter)
LastN(s, n) == IF Len(s) <= n THEN s ELSE SubSeq(s, Len(s) - n + 1, Len(s))

\* calculate_rms_samples(data, n) >= thr, without the square root:
\* sqrt(sum / n) >= thr  <=>  sum >= thr * thr * n; an empty slice has rms 0
RmsAtLeast(data, thr) ==
    IF Len(data) = 0 THEN 0 >= thr
    ELSE SumSq(data) >= thr * thr * Len(data)

\* voice_now computed over the whole window instead of its trailing 300 ms
VoiceNowWholeWindow(buf) == RmsAtLeast(buf, ENERGY_THRESHOLD)

\* voice_now of a window: the rms of its trailing 300 ms against the threshold
VoiceNow(buf) ==
    LET window_samples == Min(Len(buf), vad_window_cap)
    IN  RmsAtLeast(LastN(buf, window_samples), ENERGY_THRESHOLD)

\* add_audio with the cap enforced one sample too late
AddAudioStoreOffByOne(buf, processed, pcm_data) ==
    LET appended == buf \o pcm_data
        size == Len(appended)
    IN  IF size > max_samples + 1
        THEN LET remove == size - max_samples
             IN  [buffer |-> SubSeq(appended, remove + 1, size),
                  processed |-> IF processed > remove
                                THEN processed - remove ELSE 0]
        ELSE [buffer |-> appended, processed |-> processed]

\* add_audio erasing at the wrong end: the newest samples are dropped
AddAudioStoreDropNewest(buf, processed, pcm_data) ==
    LET appended == buf \o pcm_data
        size == Len(appended)
    IN  IF size > max_samples
        THEN LET remove == size - max_samples
             IN  [buffer |-> SubSeq(appended, 1, max_samples),
                  processed |-> IF processed > remove
                                THEN processed - remove ELSE 0]
        ELSE [buffer |-> appended, processed |-> processed]

\* add_audio zeroing the cursor whenever it trims
AddAudioStoreResetsCursor(buf, processed, pcm_data) ==
    LET appended == buf \o pcm_data
        size == Len(appended)
    IN  IF size > max_samples
        THEN LET remove == size - max_samples
             IN  [buffer |-> SubSeq(appended, remove + 1, size),
                  processed |-> 0]
        ELSE [buffer |-> appended, processed |-> processed]

\* add_audio trimming the store without moving the cursor
AddAudioStoreKeepsCursor(buf, processed, pcm_data) ==
    LET appended == buf \o pcm_data
        size == Len(appended)
    IN  IF size > max_samples
        THEN LET remove == size - max_samples
             IN  [buffer |-> SubSeq(appended, remove + 1, size),
                  processed |-> processed]
        ELSE [buffer |-> appended, processed |-> processed]

\* the body of add_audio under audio_mutex: append, then enforce the cap
AddAudioStore(buf, processed, pcm_data) ==
    LET appended == buf \o pcm_data
        size == Len(appended)
    IN  IF size > max_samples
        THEN LET remove == size - max_samples
             IN  IF remove >= size
                 THEN [buffer |-> <<>>, processed |-> 0]
                 ELSE [buffer |-> SubSeq(appended, remove + 1, size),
                       processed |-> IF processed > remove
                                     THEN processed - remove ELSE 0]
        ELSE [buffer |-> appended, processed |-> processed]

\* the wait predicate of the worker
WaitPredicate(stop, buf, processed) ==
    stop \/ Len(buf) > processed + (min_chunk_samples \div 2)

\* a snapshot window without the one-second overlap
SnapshotStartNoOverlap(processed) == processed

\* where the snapshot window starts (0-based index into the buffer)
SnapshotStart(processed) ==
    IF processed > one_second_samples THEN processed - one_second_samples ELSE 0

\* the minimum-chunk check testing only for an empty window
TooShortOnlyEmpty(buf) == Len(buf) = 0

\* work_buf.size() < min_chunk_samples
TooShort(buf) == Len(buf) < min_chunk_samples

\* the finality decision with a strict comparison
IsFinalStrict(speech, silence_ms) ==
    speech /\ silence_ms > SILENCE_THRESHOLD_MS

\* the finality decision
IsFinal(speech, silence_ms) ==
    speech /\ silence_ms >= SILENCE_THRESHOLD_MS

\* a steady_clock age after one tick; ages saturate where no comparison
\* of the code can tell them apart any more
Aged(ms, cap) == Min(ms + TickMs, cap)

\* ------------------------------------------------------------ messages
Status(s) == [type |-> "status", body |-> s]
Error(m) == [type |-> "error", body |-> m]
Result(t, f) == [text |-> t, is_final |-> f]

\* ------------------------------------------------------------ state
VARIABLES
    \* main.cpp globals
    is_processing,      \* std::atomic<bool> is_processing
    audio_capture,      \* the AudioCapture object and what it holds
    inference_engine,   \* the InferenceEngine object and whether ctx is held
    main_pc,            \* the main thread: "idle", "join", or "exited"
    last_cmd,           \* the command handled last: "none", "start", "stop",
                        \* "quit"
    cmd_out,            \* the messages that command has written so far
    \* InferenceEngine::Impl
    audio_buffer,
    processed_samples,
    should_stop,
    running,
    had_speech,
    since_voice_ms,     \* steady_clock::now() - last_voice_time
    cv_notified,        \* a notify_one has reached the blocked worker
    \* the audio callback thread's input
    mic_level,          \* the level of the sound at the microphone
    mic_changes,        \* how often it has changed since the capture started
    \* the worker thread
    pc,                 \* position in run(); "none" when there is no thread
    work_buf,
    voice_now,          \* the VAD decision of the current iteration
    is_final,
    wait_ms,            \* time spent in the current wait_for
    iter_out,           \* results passed to the callback in this iteration
    iter_err,           \* this iteration wrote "whisper_full() failed" to cerr
    fed_samples,        \* samples appended to this engine, counted up to 0.5 s
    finals_since_voice, \* is_final=true results since a pass last saw voice
    skipped_samples,    \* how many samples at the front of the store a skipped
                        \* short-window iteration consumed last, while no
                        \* later window has gone on to the VAD
    \* the mutexes, each with the thread that holds it ("free" when none),
    \* and the audio callback thread's position inside data_callback
    audio_mutex,
    cv_mutex,
    callback_mutex,
    cb_pc

vars == <<is_processing, audio_capture, inference_engine, main_pc, last_cmd,
          cmd_out, audio_buffer, processed_samples, should_stop, running,
          had_speech, since_voice_ms, cv_notified, pc, work_buf,
          is_final, wait_ms, iter_out, iter_err, fed_samples, mic_level,
          mic_changes, voice_now, finals_since_voice, skipped_samples,
          audio_mutex, cv_mutex, callback_mutex, cb_pc>>

ctrl_vars == <<is_processing, audio_capture, inference_engine, main_pc,
               last_cmd, cmd_out>>
mic_vars == <<mic_level, mic_changes>>
store_vars == <<audio_buffer, processed_samples>>
speech_vars == <<had_speech, since_voice_ms>>
worker_locals == <<work_buf, voice_now, is_final, iter_out, iter_err>>
lock_vars == <<audio_mutex, cv_mutex, callback_mutex, cb_pc>>

NoCapture == [exists |-> FALSE, context_inited |-> FALSE,
              device_inited |-> FALSE, started |-> FALSE, is_running |-> FALSE]
NoEngine == [exists |-> FALSE, ctx |-> FALSE]

Init ==
    /\ is_processing = FALSE
    /\ audio_capture = NoCapture
    /\ inference_engine = NoEngine
    /\ main_pc = "idle"
    /\ last_cmd = "none"
    /\ cmd_out = <<>>
    /\ audio_buffer = <<>>
    /\ processed_samples = 0
    /\ should_stop = FALSE
    /\ running = FALSE
    /\ had_speech = FALSE
    /\ since_voice_ms = 0
    /\ cv_notified = FALSE
    /\ pc = "none"
    /\ work_buf = <<>>
    /\ is_final = FALSE
    /\ wait_ms = 0
    /\ iter_out = <<>>
    /\ iter_err = FALSE
    /\ fed_samples = 0
    /\ voice_now = FALSE
    /\ finals_since_voice = 0
    /\ skipped_samples = 0
    /\ audio_mutex = "free"
    /\ cv_mutex = "free"
    /\ callback_mutex = "free"
    /\ cb_pc = "idle"
    /\ mic_level = Quiet
    /\ mic_changes = 0

\* the state of a freshly constructed Impl and of a worker that has not run
FreshImpl ==
    /\ audio_buffer' = <<>>
    /\ processed_samples' = 0
    /\ should_stop' = FALSE
    /\ running' = FALSE
    /\ had_speech' = FALSE
    /\ since_voice_ms' = 0
    /\ cv_notified' = FALSE
    /\ work_buf' = <<>>
    /\ is_final' = FALSE
    /\ wait_ms' = 0
    /\ iter_out' = <<>>
    /\ iter_err' = FALSE
    /\ fed_samples' = 0
    /\ voice_now' = FALSE
    /\ finals_since_voice' = 0
    /\ skipped_samples' = 0

\* ------------------------------------------------------------ main thread
\* how far a start gets: the outcomes of init, ma_context_init,
\* ma_device_init and ma_device_start
StartOutcomes == {"init_fail", "context_fail", "device_init_fail",
                  "device_start_fail", "ok"}

\* AudioCapture::start on a fresh object, by outcome
CaptureAfterStart(outcome) ==
    [exists |-> TRUE,
     context_inited |-> outcome \in {"device_init_fail", "device_start_fail", "ok"},
     device_inited |-> outcome \in {"device_start_fail", "ok"},
     started |-> outcome = "ok",
     is_running |-> outcome = "ok"]

\* a start while running that replaces the engine before it is rejected
StartAlreadyRunningReplaces ==
    /\ main_pc = "idle"
    /\ is_processing
    /\ last_cmd' = "start"
    /\ cmd_out' = <<Error("Already running")>>
    /\ audio_buffer' = <<>>
    /\ processed_samples' = 0
    /\ UNCHANGED <<is_processing, audio_capture, inference_engine, main_pc,
                   should_stop, running,
                   had_speech, since_voice_ms, cv_notified, pc,
                   work_buf, is_final, voice_now, wait_ms, iter_out, iter_err,
                   fed_samples, finals_since_voice, lock_vars, skipped_samples, mic_vars>>

\* a start while running that is dropped without an answer
StartAlreadyRunningSilent ==
    /\ main_pc = "idle"
    /\ is_processing
    /\ last_cmd' = "start"
    /\ cmd_out' = <<>>
    /\ UNCHANGED <<is_processing, audio_capture, inference_engine, main_pc,
                   audio_buffer, processed_samples, should_stop, running,
                   had_speech, since_voice_ms, cv_notified, pc,
                   work_buf, is_final, voice_now, wait_ms, iter_out, iter_err,
                   fed_samples, finals_since_voice, lock_vars, skipped_samples, mic_vars>>

\* start_engine while a pipeline is running: rejected
StartAlreadyRunning ==
    /\ main_pc = "idle"
    /\ is_processing
    /\ last_cmd' = "start"
    /\ cmd_out' = <<Error("Already running")>>
    /\ UNCHANGED <<is_processing, audio_capture, inference_engine, main_pc,
                   audio_buffer, processed_samples, should_stop, running,
                   had_speech, since_voice_ms, cv_notified, pc,
                   work_buf, is_final, voice_now, wait_ms, iter_out, iter_err,
                   fed_samples, finals_since_voice, lock_vars, skipped_samples, mic_vars>>

\* start_engine from is_processing = false: both objects are replaced (the
\* old ones, left by a failed start, are destroyed and release what they
\* hold), then init and the capture start run as far as outcome lets them
StartEngine(outcome) ==
    /\ main_pc = "idle"
    /\ ~is_processing
    /\ last_cmd' = "start"
    /\ FreshImpl
    /\ UNCHANGED lock_vars
    /\ IF outcome = "init_fail"
       THEN /\ audio_capture' = [NoCapture EXCEPT !.exists = TRUE]
            /\ inference_engine' = [exists |-> TRUE, ctx |-> FALSE]
            /\ cmd_out' = <<Error("Failed to init model")>>
            /\ UNCHANGED <<is_processing, pc>>
       ELSE /\ audio_capture' = CaptureAfterStart(outcome)
            /\ inference_engine' = [exists |-> TRUE, ctx |-> TRUE]
            /\ IF outcome = "ok"
               THEN /\ is_processing' = TRUE
                    /\ pc' = "entry"
                    /\ cmd_out' = <<Status("started")>>
               ELSE /\ cmd_out' = <<Error("Failed to start audio")>>
                    /\ UNCHANGED <<is_processing, pc>>
    /\ \E level \in Amplitudes : mic_level' = level
    /\ mic_changes' = 0
    /\ UNCHANGED main_pc

\* a stop with nothing processing that still acknowledges
StopNotRunningAcks ==
    /\ main_pc = "idle"
    /\ ~is_processing
    /\ last_cmd' = "stop"
    /\ cmd_out' = <<Status("stopped")>>
    /\ UNCHANGED <<is_processing, audio_capture, inference_engine, main_pc,
                   audio_buffer, processed_samples, should_stop, running,
                   had_speech, since_voice_ms, cv_notified, pc,
                   work_buf, is_final, voice_now, wait_ms, iter_out, iter_err,
                   fed_samples, finals_since_voice, lock_vars, skipped_samples, mic_vars>>

\* stop_engine when nothing is processing: returns at once
StopNotRunning ==
    /\ main_pc = "idle"
    /\ ~is_processing
    /\ last_cmd' = "stop"
    /\ cmd_out' = <<>>
    /\ UNCHANGED <<is_processing, audio_capture, inference_engine, main_pc,
                   audio_buffer, processed_samples, should_stop, running,
                   had_speech, since_voice_ms, cv_notified, pc,
                   work_buf, is_final, voice_now, wait_ms, iter_out, iter_err,
                   fed_samples, finals_since_voice, lock_vars, skipped_samples, mic_vars>>

\* stop_engine, up to the join: AudioCapture::stop (ma_device_stop may
\* fail, and the device then keeps running), then InferenceEngine::stop
StopBegin(device_stop_ok) ==
    /\ main_pc = "idle"
    /\ is_processing
    /\ last_cmd' = "stop"
    /\ cmd_out' = <<>>
    /\ audio_capture' =
          IF audio_capture.is_running /\ device_stop_ok
          THEN [audio_capture EXCEPT !.started = FALSE, !.is_running = FALSE]
          ELSE audio_capture
    /\ should_stop' = TRUE
    /\ cv_notified' = (cv_notified \/ pc = "wait_block")
    /\ main_pc' = "join"
    /\ UNCHANGED <<is_processing, inference_engine, audio_buffer,
                   processed_samples, running, had_speech, since_voice_ms,
                   pc, work_buf, is_final, voice_now, wait_ms, iter_out, iter_err,
                   fed_samples, finals_since_voice, lock_vars, skipped_samples, mic_vars>>

\* a stop that acknowledges with the engine still alive
StopFinishKeepsEngine ==
    /\ main_pc = "join"
    /\ pc = "done"
    /\ is_processing' = FALSE
    /\ audio_capture' = NoCapture
    /\ inference_engine' = inference_engine
    /\ FreshImpl
    /\ UNCHANGED lock_vars
    /\ pc' = "none"
    /\ main_pc' = IF last_cmd = "quit" THEN "exited" ELSE "idle"
    /\ cmd_out' = Append(cmd_out, Status("stopped"))
    /\ UNCHANGED <<last_cmd, mic_vars>>

\* stop_engine, from the join on: the thread has returned, both objects are
\* destroyed (terminate uninitialises device and context, the engine frees
\* its context) and the acknowledgement is written
StopFinish ==
    /\ main_pc = "join"
    /\ pc = "done"
    /\ is_processing' = FALSE
    /\ audio_capture' = NoCapture
    /\ inference_engine' = NoEngine
    /\ FreshImpl
    /\ UNCHANGED lock_vars
    /\ pc' = "none"
    /\ main_pc' = IF last_cmd = "quit" THEN "exited" ELSE "idle"
    /\ cmd_out' = Append(cmd_out, Status("stopped"))
    /\ UNCHANGED <<last_cmd, mic_vars>>

\* a quit that leaves main without calling stop_engine
QuitBeginSkipsStop(device_stop_ok) ==
    /\ main_pc = "idle"
    /\ is_processing
    /\ last_cmd' = "quit"
    /\ cmd_out' = <<>>
    /\ main_pc' = "exited"
    /\ UNCHANGED <<is_processing, audio_capture, inference_engine,
                   audio_buffer, processed_samples, should_stop, running,
                   had_speech, since_voice_ms, cv_notified, pc,
                   work_buf, is_final, voice_now, wait_ms, iter_out, iter_err,
                   fed_samples, finals_since_voice, lock_vars, skipped_samples, mic_vars>>

\* the quit command when nothing is processing: stop_engine returns at
\* once, the loop of main is left and main returns
QuitNotRunning ==
    /\ main_pc = "idle"
    /\ ~is_processing
    /\ last_cmd' = "quit"
    /\ cmd_out' = <<>>
    /\ main_pc' = "exited"
    /\ UNCHANGED <<is_processing, audio_capture, inference_engine,
                   audio_buffer, processed_samples, should_stop, running,
                   had_speech, since_voice_ms, cv_notified, pc,
                   work_buf, is_final, voice_now, wait_ms, iter_out, iter_err,
                   fed_samples, finals_since_voice, lock_vars, skipped_samples, mic_vars>>

\* the quit command while processing: stop_engine up to the join, as for
\* stop; main returns once stop_engine has
QuitBegin(device_stop_ok) ==
    /\ main_pc = "idle"
    /\ is_processing
    /\ last_cmd' = "quit"
    /\ cmd_out' = <<>>
    /\ audio_capture' =
          IF audio_capture.is_running /\ device_stop_ok
          THEN [audio_capture EXCEPT !.started = FALSE, !.is_running = FALSE]
          ELSE audio_capture
    /\ should_stop' = TRUE
    /\ cv_notified' = (cv_notified \/ pc = "wait_block")
    /\ main_pc' = "join"
    /\ UNCHANGED <<is_processing, inference_engine, audio_buffer,
                   processed_samples, running, had_speech, since_voice_ms,
                   pc, work_buf, is_final, voice_now, wait_ms, iter_out,
                   iter_err, fed_samples, finals_since_voice, lock_vars, skipped_samples, mic_vars>>

\* ------------------------------------------------------------ audio thread
\* data_callback -> the lambda of start_engine -> add_audio: the store is
\* updated under audio_mutex, then notify_one.  The sound at the microphone
\* is at one level per frame and changes level a bounded number of times.
AddAudio(pcm_data) ==
    /\ audio_capture.started
    /\ audio_capture.is_running
    /\ inference_engine.exists
    /\ IF pcm_data[1] = mic_level
       THEN UNCHANGED mic_vars
       ELSE /\ mic_changes < MaxLevelChanges
            /\ mic_level' = pcm_data[1]
            /\ mic_changes' = mic_changes + 1
    /\ LET after == AddAudioStore(audio_buffer, processed_samples, pcm_data)
           removed == Len(audio_buffer) + Len(pcm_data) - Len(after.buffer)
       IN  /\ audio_buffer' = after.buffer
           /\ processed_samples' = after.processed
           /\ skipped_samples' = IF skipped_samples > removed
                                 THEN skipped_samples - removed ELSE 0
    /\ fed_samples' = Min(fed_samples + Len(pcm_data), min_chunk_samples)
    /\ cv_notified' = (cv_notified \/ pc = "wait_block")
    /\ UNCHANGED <<finals_since_voice, lock_vars, ctrl_vars, should_stop, running, speech_vars,
                   pc, worker_locals, wait_ms>>

\* ------------------------------------------------------------ the clock
Tick ==
    /\ inference_engine.exists
    /\ since_voice_ms' = Aged(since_voice_ms, SILENCE_THRESHOLD_MS)
    /\ wait_ms' = IF pc \in {"wait_unsat", "wait_block"}
                  THEN Aged(wait_ms, WAIT_TIMEOUT_MS) ELSE wait_ms
    /\ UNCHANGED <<fed_samples, finals_since_voice, lock_vars, skipped_samples, mic_vars, ctrl_vars, store_vars, should_stop, running, had_speech,
                   cv_notified, pc, worker_locals>>

\* ------------------------------------------------------------ worker thread
\* run(), the two assignments before the loop
WorkerEntry ==
    /\ pc = "entry"
    /\ running' = TRUE
    /\ should_stop' = FALSE
    /\ pc' = "loop"
    /\ UNCHANGED <<fed_samples, finals_since_voice, lock_vars, skipped_samples, mic_vars, ctrl_vars, store_vars, speech_vars, cv_notified,
                   worker_locals, wait_ms>>

\* while (!impl->should_stop)
WorkerLoop ==
    /\ pc = "loop"
    /\ pc' = IF should_stop THEN "exit" ELSE "wait_pred"
    /\ iter_out' = <<>>
    /\ iter_err' = FALSE
    /\ voice_now' = FALSE
    /\ UNCHANGED <<fed_samples, finals_since_voice, lock_vars, skipped_samples, mic_vars, ctrl_vars, store_vars, should_stop,
                   running, speech_vars, cv_notified, work_buf, is_final,
                   wait_ms>>

\* wait_for: the predicate is evaluated before blocking
WaitPred ==
    /\ pc = "wait_pred"
    /\ pc' = IF WaitPredicate(should_stop, audio_buffer, processed_samples)
             THEN "check_stop" ELSE "wait_unsat"
    /\ wait_ms' = 0
    /\ UNCHANGED <<fed_samples, finals_since_voice, lock_vars, skipped_samples, mic_vars, ctrl_vars, store_vars, should_stop, running, speech_vars,
                   cv_notified, worker_locals>>

\* wait_for: the predicate was false, the thread blocks on the condition
\* variable; a notify_one that came before this step woke nobody
WaitBlock ==
    /\ pc = "wait_unsat"
    /\ pc' = "wait_block"
    /\ cv_notified' = FALSE
    /\ UNCHANGED <<fed_samples, finals_since_voice, lock_vars, skipped_samples, mic_vars, ctrl_vars, store_vars, should_stop, running, speech_vars,
                   worker_locals, wait_ms>>

\* wait_for: woken by notify_one, the predicate is evaluated again
WaitNotified ==
    /\ pc = "wait_block"
    /\ cv_notified
    /\ cv_notified' = FALSE
    /\ IF WaitPredicate(should_stop, audio_buffer, processed_samples)
       THEN pc' = "check_stop" /\ wait_ms' = 0
       ELSE pc' = "wait_unsat" /\ UNCHANGED wait_ms
    /\ UNCHANGED <<fed_samples, finals_since_voice, lock_vars, skipped_samples, mic_vars, ctrl_vars, store_vars, should_stop, running, speech_vars,
                   worker_locals>>

\* wait_for: a spurious wake-up, the predicate is evaluated again
WaitSpurious ==
    /\ pc = "wait_block"
    /\ ~cv_notified
    /\ IF WaitPredicate(should_stop, audio_buffer, processed_samples)
       THEN pc' = "check_stop" /\ wait_ms' = 0
       ELSE pc' = "wait_unsat" /\ UNCHANGED wait_ms
    /\ UNCHANGED <<fed_samples, finals_since_voice, lock_vars, skipped_samples, mic_vars, ctrl_vars, store_vars, should_stop, running, speech_vars,
                   cv_notified, worker_locals>>

\* a wait without a timeout: cv.wait in place of cv.wait_for
WaitNoTimeout ==
    /\ pc = "wait_block"
    /\ FALSE
    /\ UNCHANGED vars

\* wait_for: the 400 ms have passed, wait_for returns whatever the predicate
WaitTimeout ==
    /\ pc = "wait_block"
    /\ wait_ms >= WAIT_TIMEOUT_MS
    /\ pc' = "check_stop"
    /\ wait_ms' = 0
    /\ cv_notified' = FALSE
    /\ UNCHANGED <<fed_samples, finals_since_voice, lock_vars, skipped_samples, mic_vars, ctrl_vars, store_vars, should_stop, running, speech_vars,
                   worker_locals>>

\* if (impl->should_stop) break;
CheckStop ==
    /\ pc = "check_stop"
    /\ pc' = IF should_stop THEN "exit" ELSE "snapshot"
    /\ UNCHANGED <<fed_samples, finals_since_voice, lock_vars, skipped_samples, mic_vars, ctrl_vars, store_vars, should_stop, running, speech_vars,
                   cv_notified, worker_locals, wait_ms>>

\* a snapshot that reports an empty result when there is nothing new
SnapshotNoDataEmits ==
    /\ pc = "snapshot"
    /\ LET total == Len(audio_buffer)
       IN  IF total <= processed_samples
           THEN /\ pc' = "loop"
                /\ iter_out' = Append(iter_out, Result("", FALSE))
                /\ UNCHANGED <<work_buf, processed_samples, skipped_samples>>
           ELSE /\ work_buf' = SubSeq(audio_buffer,
                                      SnapshotStart(processed_samples) + 1, total)
                /\ processed_samples' = total
                /\ skipped_samples' = IF TooShort(work_buf') THEN total
                                      ELSE skipped_samples
                /\ pc' = "min_chunk"
                /\ UNCHANGED iter_out
    /\ UNCHANGED <<fed_samples, finals_since_voice, lock_vars, mic_vars, ctrl_vars,
                   audio_buffer, should_stop, running, speech_vars,
                   cv_notified, is_final, voice_now, iter_err, wait_ms>>

\* the snapshot under audio_mutex: nothing new -> continue; otherwise copy
\* the window from start to the tail and mark everything consumed
Snapshot ==
    /\ pc = "snapshot"
    /\ LET total == Len(audio_buffer)
       IN  IF total <= processed_samples
           THEN /\ pc' = "loop"
                /\ UNCHANGED <<work_buf, processed_samples, skipped_samples>>
           ELSE /\ work_buf' = SubSeq(audio_buffer,
                                      SnapshotStart(processed_samples) + 1, total)
                /\ processed_samples' = total
                /\ skipped_samples' = IF TooShort(work_buf') THEN total
                                      ELSE skipped_samples
                /\ pc' = "min_chunk"
    /\ UNCHANGED <<fed_samples, finals_since_voice, lock_vars, mic_vars, ctrl_vars, audio_buffer, should_stop,
                   running, speech_vars, cv_notified, is_final, voice_now, iter_out,
                   iter_err, wait_ms>>

\* if (work_buf.size() < min_chunk_samples) continue;
MinChunk ==
    /\ pc = "min_chunk"
    /\ IF TooShort(work_buf)
       THEN pc' = "loop" /\ work_buf' = <<>> /\ UNCHANGED skipped_samples
       ELSE pc' = "vad" /\ skipped_samples' = 0 /\ UNCHANGED work_buf
    /\ UNCHANGED <<fed_samples, finals_since_voice, lock_vars, mic_vars, ctrl_vars, store_vars, should_stop,
                   running, speech_vars, cv_notified, is_final, voice_now, iter_out,
                   iter_err, wait_ms>>

\* the VAD step: voice refreshes had_speech and last_voice_time
Vad ==
    /\ pc = "vad"
    /\ voice_now' = VoiceNow(work_buf)
    /\ IF voice_now'
       THEN /\ had_speech' = TRUE
            /\ since_voice_ms' = 0
            /\ finals_since_voice' = 0
       ELSE UNCHANGED <<speech_vars, finals_since_voice>>
    /\ pc' = "decode"
    /\ UNCHANGED <<fed_samples, lock_vars, skipped_samples, mic_vars, ctrl_vars, store_vars, should_stop,
                   running, cv_notified, work_buf, is_final, iter_out,
                   iter_err, wait_ms>>

\* a failed whisper_full that ends the loop
DecodeFailFatal ==
    /\ pc = "decode"
    /\ iter_err' = TRUE
    /\ iter_out' = Append(iter_out, Result("", FALSE))
    /\ work_buf' = <<>>
    /\ pc' = "exit"
    /\ UNCHANGED <<fed_samples, finals_since_voice, lock_vars, skipped_samples, mic_vars, ctrl_vars, store_vars, should_stop,
                   running, speech_vars, cv_notified, is_final, voice_now, wait_ms>>

\* a failed whisper_full that also empties the store
DecodeFailClears ==
    /\ pc = "decode"
    /\ iter_err' = TRUE
    /\ iter_out' = Append(iter_out, Result("", FALSE))
    /\ work_buf' = <<>>
    /\ audio_buffer' = <<>>
    /\ processed_samples' = 0
    /\ pc' = "loop"
    /\ UNCHANGED <<fed_samples, finals_since_voice, lock_vars, skipped_samples, mic_vars, ctrl_vars, should_stop,
                   running, speech_vars, cv_notified, is_final, voice_now, wait_ms>>

\* whisper_full fails: one empty non-final result, then continue
DecodeFail ==
    /\ pc = "decode"
    /\ iter_err' = TRUE
    /\ iter_out' = Append(iter_out, Result("", FALSE))
    /\ work_buf' = <<>>
    /\ pc' = "loop"
    /\ UNCHANGED <<fed_samples, finals_since_voice, lock_vars, skipped_samples, mic_vars, ctrl_vars, store_vars, should_stop,
                   running, speech_vars, cv_notified, is_final, voice_now, wait_ms>>

\* whisper_full succeeds; the segments are gathered afterwards
DecodeOk ==
    /\ pc = "decode"
    /\ work_buf' = <<>>
    /\ pc' = "classify"
    /\ UNCHANGED <<fed_samples, finals_since_voice, lock_vars, skipped_samples, mic_vars, ctrl_vars, store_vars, should_stop,
                   running, speech_vars, cv_notified, is_final, voice_now, iter_out,
                   iter_err, wait_ms>>

\* the finality decision and the callback with the result
ClassifyEmit(text) ==
    /\ pc = "classify"
    /\ is_final' = IsFinal(had_speech, since_voice_ms)
    /\ iter_out' = Append(iter_out, Result(text, is_final'))
    /\ finals_since_voice' = IF is_final'
                             THEN Min(finals_since_voice + 1, MaxFinals)
                             ELSE finals_since_voice
    /\ pc' = IF is_final' THEN "clear" ELSE "loop"
    /\ UNCHANGED <<fed_samples, lock_vars, skipped_samples, mic_vars, ctrl_vars, store_vars, should_stop,
                   running, speech_vars, cv_notified, work_buf, voice_now, iter_err,
                   wait_ms>>

\* a finalization clear that forgets the cursor
FinalClearStoreKeepsCursor == [buffer |-> <<>>, processed |-> processed_samples]

\* what the finalization clear leaves in the store
FinalClearStore == [buffer |-> <<>>, processed |-> 0]

\* if (is_final): the clear under audio_mutex
FinalClear ==
    /\ pc = "clear"
    /\ audio_buffer' = FinalClearStore.buffer
    /\ processed_samples' = FinalClearStore.processed
    /\ skipped_samples' = 0
    /\ pc' = "reset"
    /\ UNCHANGED <<fed_samples, finals_since_voice, lock_vars, mic_vars, ctrl_vars, should_stop, running, speech_vars, cv_notified,
                   worker_locals, wait_ms>>

\* a finalization that leaves had_speech set
ResetSpeechMissing ==
    /\ pc = "reset"
    /\ pc' = "loop"
    /\ UNCHANGED <<fed_samples, finals_since_voice, lock_vars, skipped_samples, mic_vars, ctrl_vars, store_vars, should_stop,
                   running, speech_vars, cv_notified, worker_locals, wait_ms>>

\* if (is_final): impl->had_speech = false, after the lock is released
ResetSpeech ==
    /\ pc = "reset"
    /\ had_speech' = FALSE
    /\ pc' = "loop"
    /\ UNCHANGED <<fed_samples, finals_since_voice, lock_vars, skipped_samples, mic_vars, ctrl_vars, store_vars, should_stop, running, since_voice_ms,
                   cv_notified, worker_locals, wait_ms>>

\* impl->running = false; run() returns
WorkerExit ==
    /\ pc = "exit"
    /\ running' = FALSE
    /\ pc' = "done"
    /\ UNCHANGED <<fed_samples, finals_since_voice, lock_vars, skipped_samples, mic_vars, ctrl_vars, store_vars, should_stop, speech_vars,
                   cv_notified, worker_locals, wait_ms>>

\* ------------------------------------------------------------ specification
Next ==
    \/ StartAlreadyRunning
    \/ \E outcome \in StartOutcomes : StartEngine(outcome)
    \/ StopNotRunning
    \/ \E device_stop_ok \in BOOLEAN : StopBegin(device_stop_ok)
    \/ StopFinish
    \/ QuitNotRunning
    \/ \E device_stop_ok \in BOOLEAN : QuitBegin(device_stop_ok)
    \/ \E pcm_data \in Frames : AddAudio(pcm_data)
    \/ Tick
    \/ WorkerEntry
    \/ WorkerLoop
    \/ WaitPred
    \/ WaitBlock
    \/ WaitNotified
    \/ WaitSpurious
    \/ WaitTimeout
    \/ CheckStop
    \/ Snapshot
    \/ MinChunk
    \/ Vad
    \/ DecodeFail
    \/ DecodeOk
    \/ \E text \in Texts : ClassifyEmit(text)
    \/ FinalClear
    \/ ResetSpeech
    \/ WorkerExit

Spec == Init /\ [][Next]_vars

\* the steps the worker thread takes when it is scheduled; a spurious
\* wake-up is not among them, nothing promises one
Worker ==
    \/ WorkerEntry
    \/ WorkerLoop
    \/ WaitPred
    \/ WaitBlock
    \/ WaitNotified
    \/ WaitTimeout
    \/ CheckStop
    \/ Snapshot
    \/ MinChunk
    \/ Vad
    \/ DecodeFail
    \/ DecodeOk
    \/ \E text \in Texts : ClassifyEmit(text)
    \/ FinalClear
    \/ ResetSpeech
    \/ WorkerExit

\* the scheduler runs the worker thread, the clock advances, and join
\* returns once the thread has
LiveSpec ==
    /\ Spec
    /\ WF_vars(Worker)
    /\ WF_vars(Tick)
    /\ WF_vars(StopFinish)

\* ------------------------------------------------------------ locking
\* The same three threads with every lock_guard and unique_lock as steps of
\* their own: a thread at a position "lock_x" is at the constructor of the
\* guard and takes the step when the mutex is free; the guarded section is
\* the next step and ends with the release.  What plays no part in the
\* locking is left out: the clock (a timeout may come at any time), the VAD
\* and the text (a pass may or may not be final), and the failing starts.
\* The worker's positions here are "entry", "loop", "lock_cv", "lock_pred",
\* "pred", "wait_unsat", "blocked", "lock_pred_last", "pred_last",
\* "check_stop", "lock_snapshot", "snapshot", "min_chunk", "decode",
\* "callback", "callback_err", "lock_clear", "clear", "exit", "done".

\* the variables the locking steps never touch
lock_frame == <<last_cmd, cmd_out, had_speech, since_voice_ms, voice_now,
                is_final, wait_ms, iter_out, iter_err, fed_samples,
                finals_since_voice, skipped_samples, mic_level, mic_changes>>
main_vars == <<is_processing, audio_capture, inference_engine, main_pc>>
flag_vars == <<should_stop, running, cv_notified>>
mutex_vars == <<audio_mutex, cv_mutex, callback_mutex>>

\* the frames of a quiet microphone
QuietFrames == {pcm_data \in Frames : pcm_data[1] = Quiet}

\* start_engine up to AudioCapture::start: both objects made, the model
\* loaded, the device initialised
MainStart ==
    /\ main_pc = "idle"
    /\ ~is_processing
    /\ audio_capture' = [exists |-> TRUE, context_inited |-> TRUE,
                         device_inited |-> TRUE, started |-> FALSE,
                         is_running |-> FALSE]
    /\ inference_engine' = [exists |-> TRUE, ctx |-> TRUE]
    /\ main_pc' = "lock_callback"
    /\ UNCHANGED <<is_processing, store_vars, flag_vars, pc, work_buf,
                   lock_vars, lock_frame>>

\* AudioCapture::start: lock_guard on callback_mutex
MainLockCallback ==
    /\ main_pc = "lock_callback"
    /\ callback_mutex = "free"
    /\ callback_mutex' = "main"
    /\ main_pc' = "set_callback"
    /\ UNCHANGED <<is_processing, audio_capture, inference_engine,
                   store_vars, flag_vars, pc, work_buf, audio_mutex,
                   cv_mutex, cb_pc, lock_frame>>

\* AudioCapture::start: current_callback set and the guard released, the
\* device started; start_engine then sets is_processing and makes the thread
MainStartRun ==
    /\ main_pc = "set_callback"
    /\ callback_mutex' = "free"
    /\ audio_capture' = [audio_capture EXCEPT !.started = TRUE,
                                              !.is_running = TRUE]
    /\ is_processing' = TRUE
    /\ pc' = "entry"
    /\ main_pc' = "idle"
    /\ UNCHANGED <<inference_engine, store_vars, flag_vars, work_buf,
                   audio_mutex, cv_mutex, cb_pc, lock_frame>>

\* stop_engine: AudioCapture::stop calls ma_device_stop, which returns when
\* the callback in flight has
MainStopDevice ==
    /\ main_pc = "idle"
    /\ is_processing
    /\ main_pc' = "device_stop"
    /\ UNCHANGED <<is_processing, audio_capture, inference_engine,
                   store_vars, flag_vars, pc, work_buf, lock_vars,
                   lock_frame>>

\* ma_device_stop has returned; is_running is cleared when it succeeded
MainStopDeviceDone(device_stop_ok) ==
    /\ main_pc = "device_stop"
    /\ cb_pc = "idle"
    /\ audio_capture' =
          IF device_stop_ok
          THEN [audio_capture EXCEPT !.started = FALSE, !.is_running = FALSE]
          ELSE audio_capture
    /\ main_pc' = "engine_stop"
    /\ UNCHANGED <<is_processing, inference_engine, store_vars, flag_vars,
                   pc, work_buf, lock_vars, lock_frame>>

\* InferenceEngine::stop: the flag, then notify_one, no mutex held
MainStopEngine ==
    /\ main_pc = "engine_stop"
    /\ should_stop' = TRUE
    /\ cv_notified' = (cv_notified \/ pc = "blocked")
    /\ main_pc' = "join"
    /\ UNCHANGED <<is_processing, audio_capture, inference_engine,
                   store_vars, running, pc, work_buf, lock_vars, lock_frame>>

\* the join has returned; both objects are destroyed, the device
\* uninitialised once its callback has returned
MainStopFinish ==
    /\ main_pc = "join"
    /\ pc = "done"
    /\ cb_pc = "idle"
    /\ is_processing' = FALSE
    /\ audio_capture' = NoCapture
    /\ inference_engine' = NoEngine
    /\ audio_buffer' = <<>>
    /\ processed_samples' = 0
    /\ should_stop' = FALSE
    /\ running' = FALSE
    /\ cv_notified' = FALSE
    /\ work_buf' = <<>>
    /\ pc' = "none"
    /\ main_pc' = "idle"
    /\ UNCHANGED <<lock_vars, lock_frame>>

\* data_callback: is_running is set, the frame is copied
CbEnter ==
    /\ cb_pc = "idle"
    /\ audio_capture.is_running
    /\ main_pc # "device_stop"
    /\ cb_pc' = "lock_callback"
    /\ UNCHANGED <<main_vars, store_vars, flag_vars, pc, work_buf,
                   mutex_vars, lock_frame>>

\* data_callback: lock_guard on callback_mutex
CbLockCallback ==
    /\ cb_pc = "lock_callback"
    /\ callback_mutex = "free"
    /\ callback_mutex' = "audio"
    /\ cb_pc' = "lock_audio"
    /\ UNCHANGED <<main_vars, store_vars, flag_vars, pc, work_buf,
                   audio_mutex, cv_mutex, lock_frame>>

\* add_audio: lock_guard on audio_mutex
CbLockAudio ==
    /\ cb_pc = "lock_audio"
    /\ audio_mutex = "free"
    /\ audio_mutex' = "audio"
    /\ cb_pc' = "append"
    /\ UNCHANGED <<main_vars, store_vars, flag_vars, pc, work_buf,
                   cv_mutex, callback_mutex, lock_frame>>

\* add_audio: append and trim, then the guard is released
CbAppend(pcm_data) ==
    /\ cb_pc = "append"
    /\ LET after == AddAudioStore(audio_buffer, processed_samples, pcm_data)
       IN  /\ audio_buffer' = after.buffer
           /\ processed_samples' = after.processed
    /\ audio_mutex' = "free"
    /\ cb_pc' = "notify"
    /\ UNCHANGED <<main_vars, flag_vars, pc, work_buf, cv_mutex,
                   callback_mutex, lock_frame>>

\* add_audio: notify_one; back in data_callback its guard is released
CbNotify ==
    /\ cb_pc = "notify"
    /\ cv_notified' = (cv_notified \/ pc = "blocked")
    /\ callback_mutex' = "free"
    /\ cb_pc' = "idle"
    /\ UNCHANGED <<main_vars, store_vars, should_stop, running, pc,
                   work_buf, audio_mutex, cv_mutex, lock_frame>>

\* run(): the two assignments before the loop
RunEntry ==
    /\ pc = "entry"
    /\ running' = TRUE
    /\ should_stop' = FALSE
    /\ pc' = "loop"
    /\ UNCHANGED <<main_vars, store_vars, cv_notified, work_buf, lock_vars,
                   lock_frame>>

\* while (!impl->should_stop)
RunLoop ==
    /\ pc = "loop"
    /\ pc' = IF should_stop THEN "exit" ELSE "lock_cv"
    /\ UNCHANGED <<main_vars, store_vars, flag_vars, work_buf, lock_vars,
                   lock_frame>>

\* unique_lock on cv_mutex
RunLockCv ==
    /\ pc = "lock_cv"
    /\ cv_mutex = "free"
    /\ cv_mutex' = "worker"
    /\ pc' = "lock_pred"
    /\ UNCHANGED <<main_vars, store_vars, flag_vars, work_buf, audio_mutex,
                   callback_mutex, cb_pc, lock_frame>>

\* a wait predicate that reads the store without the guard
RunLockPredNoGuard ==
    /\ pc = "lock_pred"
    /\ pc' = "pred"
    /\ UNCHANGED <<main_vars, store_vars, flag_vars, work_buf, lock_vars,
                   lock_frame>>

\* the wait predicate: lock_guard on audio_mutex, cv_mutex held
RunLockPred ==
    /\ pc = "lock_pred"
    /\ audio_mutex = "free"
    /\ audio_mutex' = "worker"
    /\ pc' = "pred"
    /\ UNCHANGED <<main_vars, store_vars, flag_vars, work_buf, cv_mutex,
                   callback_mutex, cb_pc, lock_frame>>

\* the wait predicate is evaluated and its guard released; when it holds,
\* wait_for returns and the unique_lock goes out of scope
RunPred ==
    /\ pc = "pred"
    /\ audio_mutex' = "free"
    /\ IF WaitPredicate(should_stop, audio_buffer, processed_samples)
       THEN pc' = "check_stop" /\ cv_mutex' = "free"
       ELSE pc' = "wait_unsat" /\ UNCHANGED cv_mutex
    /\ UNCHANGED <<main_vars, store_vars, flag_vars, work_buf,
                   callback_mutex, cb_pc, lock_frame>>

\* wait_for blocks: cv_mutex is released while the thread waits; a
\* notify_one that came before woke nobody
RunBlock ==
    /\ pc = "wait_unsat"
    /\ cv_mutex' = "free"
    /\ cv_notified' = FALSE
    /\ pc' = "blocked"
    /\ UNCHANGED <<main_vars, store_vars, should_stop, running, work_buf,
                   audio_mutex, callback_mutex, cb_pc, lock_frame>>

\* wait_for wakes, notified or spuriously: cv_mutex is taken again and the
\* predicate evaluated again
RunWake ==
    /\ pc = "blocked"
    /\ cv_mutex = "free"
    /\ cv_mutex' = "worker"
    /\ cv_notified' = FALSE
    /\ pc' = "lock_pred"
    /\ UNCHANGED <<main_vars, store_vars, should_stop, running, work_buf,
                   audio_mutex, callback_mutex, cb_pc, lock_frame>>

\* wait_for times out: cv_mutex is taken again and the predicate evaluated
\* a last time for the return value
RunTimeout ==
    /\ pc = "blocked"
    /\ cv_mutex = "free"
    /\ cv_mutex' = "worker"
    /\ cv_notified' = FALSE
    /\ pc' = "lock_pred_last"
    /\ UNCHANGED <<main_vars, store_vars, should_stop, running, work_buf,
                   audio_mutex, callback_mutex, cb_pc, lock_frame>>

\* the predicate after the timeout: lock_guard on audio_mutex
RunLockPredLast ==
    /\ pc = "lock_pred_last"
    /\ audio_mutex = "free"
    /\ audio_mutex' = "worker"
    /\ pc' = "pred_last"
    /\ UNCHANGED <<main_vars, store_vars, flag_vars, work_buf, cv_mutex,
                   callback_mutex, cb_pc, lock_frame>>

\* the predicate after the timeout is evaluated; wait_for returns whatever
\* it gave and both locks are released
RunPredLast ==
    /\ pc = "pred_last"
    /\ audio_mutex' = "free"
    /\ cv_mutex' = "free"
    /\ pc' = "check_stop"
    /\ UNCHANGED <<main_vars, store_vars, flag_vars, work_buf,
                   callback_mutex, cb_pc, lock_frame>>

\* if (impl->should_stop) break;
RunCheckStop ==
    /\ pc = "check_stop"
    /\ pc' = IF should_stop THEN "exit" ELSE "lock_snapshot"
    /\ UNCHANGED <<main_vars, store_vars, flag_vars, work_buf, lock_vars,
                   lock_frame>>

\* the snapshot block: lock_guard on audio_mutex
RunLockSnapshot ==
    /\ pc = "lock_snapshot"
    /\ audio_mutex = "free"
    /\ audio_mutex' = "worker"
    /\ pc' = "snapshot"
    /\ UNCHANGED <<main_vars, store_vars, flag_vars, work_buf, cv_mutex,
                   callback_mutex, cb_pc, lock_frame>>

\* a snapshot block that keeps audio_mutex when it ends
RunSnapshotKeepsLock ==
    /\ pc = "snapshot"
    /\ LET total == Len(audio_buffer)
       IN  IF total <= processed_samples
           THEN /\ pc' = "loop"
                /\ UNCHANGED <<work_buf, processed_samples>>
           ELSE /\ work_buf' = SubSeq(audio_buffer,
                                      SnapshotStart(processed_samples) + 1, total)
                /\ processed_samples' = total
                /\ pc' = "min_chunk"
    /\ UNCHANGED <<main_vars, audio_buffer, flag_vars, lock_vars,
                   lock_frame>>

\* the snapshot block: nothing new -> continue; otherwise the copy and the
\* cursor; the guard is released either way
RunSnapshot ==
    /\ pc = "snapshot"
    /\ LET total == Len(audio_buffer)
       IN  IF total <= processed_samples
           THEN /\ pc' = "loop"
                /\ UNCHANGED <<work_buf, processed_samples>>
           ELSE /\ work_buf' = SubSeq(audio_buffer,
                                      SnapshotStart(processed_samples) + 1, total)
                /\ processed_samples' = total
                /\ pc' = "min_chunk"
    /\ audio_mutex' = "free"
    /\ UNCHANGED <<main_vars, audio_buffer, flag_vars, cv_mutex,
                   callback_mutex, cb_pc, lock_frame>>

\* if (work_buf.size() < min_chunk_samples) continue; then the VAD
RunMinChunk ==
    /\ pc = "min_chunk"
    /\ IF TooShort(work_buf)
       THEN pc' = "loop" /\ work_buf' = <<>>
       ELSE pc' = "decode" /\ UNCHANGED work_buf
    /\ UNCHANGED <<main_vars, store_vars, flag_vars, lock_vars, lock_frame>>

\* whisper_full returns, with or without success
RunDecode(ok) ==
    /\ pc = "decode"
    /\ work_buf' = <<>>
    /\ pc' = IF ok THEN "callback" ELSE "callback_err"
    /\ UNCHANGED <<main_vars, store_vars, flag_vars, lock_vars, lock_frame>>

\* callback(err), then continue
RunCallbackErr ==
    /\ pc = "callback_err"
    /\ pc' = "loop"
    /\ UNCHANGED <<main_vars, store_vars, flag_vars, work_buf, lock_vars,
                   lock_frame>>

\* callback(result); a final result is followed by the clear
RunCallback(final) ==
    /\ pc = "callback"
    /\ pc' = IF final THEN "lock_clear" ELSE "loop"
    /\ UNCHANGED <<main_vars, store_vars, flag_vars, work_buf, lock_vars,
                   lock_frame>>

\* the finalization clear: lock_guard on audio_mutex
RunLockClear ==
    /\ pc = "lock_clear"
    /\ audio_mutex = "free"
    /\ audio_mutex' = "worker"
    /\ pc' = "clear"
    /\ UNCHANGED <<main_vars, store_vars, flag_vars, work_buf, cv_mutex,
                   callback_mutex, cb_pc, lock_frame>>

\* the finalization clear, its guard released; had_speech after it
RunClear ==
    /\ pc = "clear"
    /\ audio_buffer' = FinalClearStore.buffer
    /\ processed_samples' = FinalClearStore.processed
    /\ audio_mutex' = "free"
    /\ pc' = "loop"
    /\ UNCHANGED <<main_vars, flag_vars, work_buf, cv_mutex, callback_mutex,
                   cb_pc, lock_frame>>

\* impl->running = false; run() returns
RunExit ==
    /\ pc = "exit"
    /\ running' = FALSE
    /\ pc' = "done"
    /\ UNCHANGED <<main_vars, store_vars, should_stop, cv_notified,
                   work_buf, lock_vars, lock_frame>>

LockNext ==
    \/ MainStart
    \/ MainLockCallback
    \/ MainStartRun
    \/ MainStopDevice
    \/ \E device_stop_ok \in BOOLEAN : MainStopDeviceDone(device_stop_ok)
    \/ MainStopEngine
    \/ MainStopFinish
    \/ CbEnter
    \/ CbLockCallback
    \/ CbLockAudio
    \/ \E pcm_data \in QuietFrames : CbAppend(pcm_data)
    \/ CbNotify
    \/ RunEntry
    \/ RunLoop
    \/ RunLockCv
    \/ RunLockPred
    \/ RunPred
    \/ RunBlock
    \/ RunWake
    \/ RunTimeout
    \/ RunLockPredLast
    \/ RunPredLast
    \/ RunCheckStop
    \/ RunLockSnapshot
    \/ RunSnapshot
    \/ RunMinChunk
    \/ \E ok \in BOOLEAN : RunDecode(ok)
    \/ RunCallbackErr
    \/ \E final \in BOOLEAN : RunCallback(final)
    \/ RunLockClear
    \/ RunClear
    \/ RunExit

LockSpec == Init /\ [][LockNext]_vars

\* ------------------------------------------------------------ properties
\* what the properties measure against, stated apart from the code's names
HalfSecond == sample_rate \div 2
CapSamples == MAX_BUFFER_SECONDS * sample_rate
\* the last n elements of s, for n <= Len(s)
Newest(s, n) == [i \in 1..n |-> s[Len(s) - n + i]]
\* the worker is at or past the VAD step of a pass
PastMinChunk == pc \in {"vad", "decode", "classify", "clear", "reset"}

\* C1: in every reachable state, whatever the interleaving of add_audio with
\* the worker's snapshot and finalization clear and with cap trimming,
\* processed_samples <= audio_buffer.size().
C1_ProcessedWithinBuffer == processed_samples <= Len(audio_buffer)

\* C1 witness: the worker has consumed a store that is full to the cap
C1_Witness ==
    /\ pc = "min_chunk"
    /\ Len(audio_buffer) = CapSamples
    /\ processed_samples = CapSamples

\* C2: whenever the store lock is free (every state here: a critical section
\* is one step), the retained buffer holds at most
\* MAX_BUFFER_SECONDS * sample_rate samples.
C2_BufferWithinCap == Len(audio_buffer) <= CapSamples

\* C2 witness: a full store whose consumed prefix was trimmed away while the
\* worker was decoding (only add_audio's trim lowers processed_samples there)
C2_Witness ==
    /\ pc = "decode"
    /\ processed_samples = 0
    /\ Len(audio_buffer) = CapSamples

\* C3: an add_audio that trims leaves exactly the last max_samples elements
\* of (buffer before ++ frame), in arrival order; one that does not trim
\* leaves (buffer before ++ frame).
C3_TrimKeepsNewest ==
    [][\A pcm_data \in Frames :
          AddAudio(pcm_data) =>
             LET all == audio_buffer \o pcm_data
             IN  IF Len(all) > CapSamples
                 THEN audio_buffer' = Newest(all, CapSamples)
                 ELSE audio_buffer' = all]_vars

\* C3 witness: a full store holding both levels, part of the window the
\* worker is looking at already trimmed away
C3_Witness ==
    /\ pc = "vad"
    /\ Len(audio_buffer) = CapSamples
    /\ processed_samples < Len(work_buf)
    /\ audio_buffer[1] # audio_buffer[CapSamples]

\* C4: an iteration whose window is shorter than half a second goes back to
\* the loop head without a decode call or a callback; the worker is at the
\* VAD step or the decode call only with a window of at least half a second;
\* and while fewer than half a second of samples have been appended the
\* worker has never been at or past the decode call.
C4_ShortWindowNoDecode ==
    /\ [](/\ pc \in {"vad", "decode"} => Len(work_buf) >= HalfSecond
          /\ fed_samples < HalfSecond => (~PastMinChunk /\ iter_out = <<>>))
    /\ [][(pc = "min_chunk" /\ Len(work_buf) < HalfSecond)
             => (pc' \in {"min_chunk", "loop"} /\ iter_out' = iter_out
                 /\ iter_err' = iter_err)]_vars

\* C4 witness: the worker has consumed a window of one sample and skipped it
C4_Witness ==
    /\ pc = "loop"
    /\ fed_samples = 1
    /\ processed_samples = 1
    /\ Len(audio_buffer) = 1
    /\ iter_out = <<>>

\* the result passed to the callback last in this iteration
LastResult == iter_out[Len(iter_out)]
\* this step passes a result to the callback
Emits == Len(iter_out') = Len(iter_out) + 1

\* C5, as claimed: when the pass that emitted is_final=true ends, the store
\* is empty, processed_samples is 0 and had_speech is false, whatever
\* add_audio did meanwhile.
C5_AllResetAfterFinal ==
    [][(pc = "reset" /\ pc' = "loop")
          => (Len(audio_buffer') = 0 /\ processed_samples' = 0
              /\ ~had_speech')]_vars

\* C5, amended: a result with is_final=true is followed by the clear, which
\* leaves the store empty and processed_samples 0 whatever it held, and then
\* by the reset of had_speech, at which processed_samples is still 0 and the
\* store holds what add_audio appended since the clear.
C5_ClearThenReset ==
    /\ [](pc \in {"clear", "reset"} => (iter_out # <<>> /\ LastResult.is_final))
    /\ [][/\ (Emits /\ iter_out'[Len(iter_out')].is_final) => pc' = "clear"
          /\ pc = "clear" => pc' \in {"clear", "reset"}
          /\ (pc = "clear" /\ pc' = "reset")
                => (audio_buffer' = <<>> /\ processed_samples' = 0)
          /\ pc = "reset" => pc' \in {"reset", "loop"}
          /\ (pc = "reset" /\ pc' = "loop")
                => (~had_speech' /\ processed_samples' = 0
                    /\ audio_buffer' = audio_buffer)]_vars

\* C5 witness: a finalizing pass has ended with had_speech reset, and the
\* store already holds samples appended after the clear
C5_Witness ==
    /\ pc = "loop"
    /\ iter_out # <<>>
    /\ LastResult.is_final
    /\ ~had_speech
    /\ processed_samples = 0
    /\ audio_buffer # <<>>

C7_VadUpdatesSpeech ==
    [][(pc = "vad" /\ pc' # "vad")
          => LET n == IF Len(work_buf) < (3 * sample_rate) \div 10
                      THEN Len(work_buf) ELSE (3 * sample_rate) \div 10
                 trailing == Newest(work_buf, n)
                 below == SumSq(trailing) < 3 * 3 * n
             IN  IF below
                 THEN had_speech' = had_speech
                      /\ since_voice_ms' = since_voice_ms
                 ELSE had_speech' /\ since_voice_ms' = 0]_vars

\* C7 witness: a window that starts quiet and ends exactly on the threshold
\* has set had_speech and refreshed last_voice_time
C7_Witness ==
    /\ pc = "decode"
    /\ work_buf[1] = Quiet
    /\ work_buf[Len(work_buf)] = Loud
    /\ had_speech
    /\ since_voice_ms = 0

\* C8: a failed decode call passes exactly one result to the callback, with
\* empty text and is_final=false, leaves the store and the cursor alone and
\* goes back to the loop head with the worker still running; a step out of
\* the decode call does nothing else than that or a successful decode.
C8_DecodeFailureContinues ==
    [][(pc = "decode" /\ pc' # "decode")
          => \/ /\ pc' = "classify"
                /\ iter_out' = iter_out
                /\ ~iter_err'
             \/ /\ pc' = "loop"
                /\ iter_err'
                /\ iter_out' = <<[text |-> "", is_final |-> FALSE]>>
                /\ audio_buffer' = audio_buffer
                /\ processed_samples' = processed_samples
                /\ running' /\ should_stop' = should_stop]_vars

\* C8 witness: after a failed decode the worker is back at the loop head,
\* not stopped, with the store intact
C8_Witness ==
    /\ pc = "loop"
    /\ iter_err
    /\ iter_out = <<[text |-> "", is_final |-> FALSE]>>
    /\ ~should_stop
    /\ audio_buffer # <<>>

\* the resources the two objects of main.cpp hold
EngineContextHeld == inference_engine.ctx
CaptureDeviceHeld == audio_capture.device_inited
CaptureContextHeld == audio_capture.context_inited

\* C9, as claimed: after a start command that failed at engine init or at
\* the audio start, is_processing is false, there is no worker thread, one
\* error message was written, and neither an engine context nor a capture
\* device acquired by the attempt is still held.
C9_FailedStartHoldsNothing ==
    (/\ main_pc = "idle"
     /\ last_cmd = "start"
     /\ cmd_out \in {<<Error("Failed to init model")>>,
                     <<Error("Failed to start audio")>>})
       => /\ ~is_processing
          /\ pc = "none"
          /\ ~EngineContextHeld
          /\ ~CaptureDeviceHeld

\* C10, as claimed: after any stop command has returned, no engine context,
\* no capture device and no capture context is held, however far the start
\* before it got.
C10_StopReleasesEverything ==
    (main_pc = "idle" /\ last_cmd = "stop")
       => /\ ~EngineContextHeld
          /\ ~CaptureDeviceHeld
          /\ ~CaptureContextHeld

\* everything but the record of the command in hand and its messages
program_vars == <<is_processing, audio_capture, inference_engine, main_pc,
                  audio_buffer, processed_samples, should_stop, running,
                  had_speech, since_voice_ms, cv_notified, pc, work_buf,
                  voice_now, is_final, wait_ms, iter_out, iter_err,
                  fed_samples, finals_since_voice, mic_level, mic_changes,
                  audio_mutex, cv_mutex, callback_mutex, cb_pc>>
\* this step is the main thread taking a command of this kind
Takes(cmd) ==
    /\ main_pc = "idle"
    /\ last_cmd' = cmd
    /\ <<last_cmd, cmd_out>>' # <<last_cmd, cmd_out>>

\* C11: a start command taken while is_processing is set is answered with
\* the error "Already running" and changes nothing else: capture, engine,
\* worker, sample store and is_processing are as before.
C11_AlreadyRunningNoEffect ==
    [][(is_processing /\ Takes("start"))
          => /\ cmd_out' = <<[type |-> "error", body |-> "Already running"]>>
             /\ UNCHANGED program_vars]_vars

\* C11 witness: a start was rejected while the worker was in the middle of a
\* pass over a store that holds consumed samples
C11_Witness ==
    /\ last_cmd = "start"
    /\ cmd_out = <<[type |-> "error", body |-> "Already running"]>>
    /\ is_processing
    /\ pc = "decode"
    /\ processed_samples > 0
    /\ audio_capture.is_running
    /\ inference_engine.ctx

\* C12: a start command is answered by exactly one message, which is either
\* status{started} or an error, on every path; it is status{started} exactly
\* when the command took the pipeline from not processing to processing.
C12_StartAnsweredOnce ==
    /\ [](last_cmd = "start"
            => /\ Len(cmd_out) = 1
               /\ \/ cmd_out[1] = [type |-> "status", body |-> "started"]
                  \/ cmd_out[1].type = "error")
    /\ [][Takes("start")
            => /\ Len(cmd_out') = 1
               /\ (cmd_out'[1] = [type |-> "status", body |-> "started"])
                     <=> (~is_processing /\ is_processing')
               /\ (cmd_out'[1].type = "error")
                     <=> (is_processing' = is_processing)]_vars

\* C12 witness: the start was answered with status{started} and the worker
\* has since passed results to its callback; the answer is still the one
\* message of the command
C12_Witness ==
    /\ last_cmd = "start"
    /\ cmd_out = <<[type |-> "status", body |-> "started"]>>
    /\ iter_out # <<>>
    /\ is_processing

\* C13: a stop command taken while nothing is processing (already stopped,
\* or never started) writes no message and changes no state; and once a stop
\* command has returned nothing is processing, so every stop that follows
\* it is such a stop.
C13_StopIdempotent ==
    /\ [][(~is_processing /\ Takes("stop"))
            => (cmd_out' = <<>> /\ UNCHANGED program_vars)]_vars
    /\ []((main_pc = "idle" /\ last_cmd = "stop") => ~is_processing)

\* C13 witness: a stop has returned without a message, with no pipeline
\* left from before
C13_Witness ==
    /\ main_pc = "idle"
    /\ last_cmd = "stop"
    /\ cmd_out = <<>>
    /\ ~is_processing
    /\ pc = "none"
    /\ ~inference_engine.exists

\* the worker is inside the wait of run()
InWait == pc \in {"wait_pred", "wait_unsat", "wait_block"}
\* stop_engine has returned with its acknowledgement written
StopAcknowledged ==
    /\ main_pc \in {"idle", "exited"}
    /\ last_cmd \in {"stop", "quit"}
    /\ cmd_out = <<[type |-> "status", body |-> "stopped"]>>

\* C14: when stop_engine has set should_stop and is at the join while the
\* worker is inside the wait, then eventually the worker has left run(),
\* the join has returned, stop_engine has returned, and no engine context,
\* capture device or capture context is held.
C14_StopMidWaitReturns ==
    (main_pc = "join" /\ should_stop /\ InWait)
       ~> (/\ StopAcknowledged
           /\ pc = "none"
           /\ ~is_processing
           /\ ~EngineContextHeld
           /\ ~CaptureDeviceHeld
           /\ ~CaptureContextHeld)

\* C14 witness: the stop came between the worker's evaluation of the wait
\* predicate and its blocking, so its notify_one woke nobody and the worker
\* is blocked with should_stop set
C14_Witness ==
    /\ main_pc = "join"
    /\ should_stop
    /\ pc = "wait_block"
    /\ ~cv_notified
    /\ wait_ms = 0

\* the command in hand has written status{stopped}
StoppedEmitted ==
    \E i \in 1..Len(cmd_out) : cmd_out[i] = [type |-> "status", body |-> "stopped"]

\* C15: status{stopped} is written only by a step taken after run() has
\* returned, and in every state in which the command in hand has written it
\* there is no worker thread, the main thread is past the join, and neither
\* the engine context nor the capture device or context is held.
C15_StoppedAfterRelease ==
    /\ [](StoppedEmitted
            => /\ last_cmd \in {"stop", "quit"}
               /\ pc = "none"
               /\ main_pc # "join"
               /\ ~is_processing
               /\ ~running
               /\ ~EngineContextHeld
               /\ ~CaptureDeviceHeld
               /\ ~CaptureContextHeld)
    /\ [][(~StoppedEmitted /\ StoppedEmitted')
            => (main_pc = "join" /\ pc = "done" /\ ~running)]_vars

\* C15 witness: the stop of a pipeline that had been fed audio at two
\* levels has been acknowledged
C15_Witness ==
    /\ last_cmd = "stop"
    /\ StoppedEmitted
    /\ main_pc = "idle"
    /\ mic_changes = 1
    /\ ~inference_engine.exists
    /\ ~audio_capture.exists

\* C16: a quit taken while the pipeline is processing does not leave main
\* at once: it goes through the stop, and main returns from such a quit only
\* by the step that follows the return of run(), after which there is no
\* worker thread and neither engine context nor capture device or context
\* is held.
C16_QuitStopsFirst ==
    /\ [][(is_processing /\ Takes("quit"))
            => (main_pc' = "join" /\ should_stop')]_vars
    /\ [][(main_pc # "exited" /\ main_pc' = "exited" /\ is_processing)
            => /\ main_pc = "join"
               /\ pc = "done"
               /\ pc' = "none"
               /\ ~is_processing'
               /\ ~EngineContextHeld'
               /\ ~CaptureDeviceHeld'
               /\ ~CaptureContextHeld']_vars
    /\ []((main_pc = "exited" /\ StoppedEmitted)
            => /\ pc = "none"
               /\ ~is_processing
               /\ ~EngineContextHeld
               /\ ~CaptureDeviceHeld
               /\ ~CaptureContextHeld)

\* C16 witness: main has returned from a quit that stopped a pipeline
C16_Witness ==
    /\ main_pc = "exited"
    /\ last_cmd = "quit"
    /\ StoppedEmitted
    /\ pc = "none"
    /\ ~inference_engine.exists

\* this step is the finalization clear
ClearStep == pc = "clear" /\ pc' = "reset"
\* this step is stop_engine returning from the join and destroying the engine
StopStep == main_pc = "join" /\ main_pc' # "join"

\* C17, as claimed: processed_samples goes down only to zero, and only at
\* the finalization clear or at stop; no other step, add_audio included,
\* lowers it.
C17_CursorOnlyResetAtFinalOrStop ==
    [][processed_samples' < processed_samples
          => (processed_samples' = 0 /\ (ClearStep \/ StopStep))]_vars

\* C17, amended: processed_samples is raised only by the snapshot, to the
\* length of the store; it is lowered only by the finalization clear and by
\* stop, to zero, and by an add_audio that trims, by the number of samples
\* trimmed from the front and not below zero.
C17_CursorMovesOnlyByRule ==
    [][/\ processed_samples' > processed_samples
            => /\ pc = "snapshot"
               /\ processed_samples' = Len(audio_buffer)
               /\ audio_buffer' = audio_buffer
       /\ processed_samples' < processed_samples
            => \/ ClearStep /\ processed_samples' = 0 /\ audio_buffer' = <<>>
               \/ StopStep /\ processed_samples' = 0
               \/ \E pcm_data \in Frames :
                     LET all == audio_buffer \o pcm_data
                         removed == Len(all) - CapSamples
                     IN  /\ removed > 0
                         /\ audio_buffer' = Newest(all, CapSamples)
                         /\ processed_samples' =
                               IF processed_samples > removed
                               THEN processed_samples - removed ELSE 0]_vars

\* C17 witness: while the worker decodes, a trim has lowered the cursor
\* below the length of the window it had consumed, and not to zero
C17_Witness ==
    /\ pc = "decode"
    /\ processed_samples > 0
    /\ processed_samples < Len(work_buf)
    /\ Len(audio_buffer) = CapSamples

\* C18: between two results with is_final=true some pass has detected
\* voice: the count of final results emitted since the VAD step last
\* reported voice never exceeds one, and a final result is emitted only
\* when none has been since then.
C18_OneFinalPerUtterance ==
    /\ [](finals_since_voice <= 1)
    /\ [][(Emits /\ iter_out'[Len(iter_out')].is_final)
            => (finals_since_voice = 0 /\ had_speech)]_vars
    /\ [][(finals_since_voice = 1 /\ finals_since_voice' = 0
                /\ inference_engine' = inference_engine)
            => (pc = "vad" /\ had_speech'
                /\ RmsAtLeast(Newest(work_buf, Min(Len(work_buf),
                                                    (3 * sample_rate) \div 10)), 3))]_vars

\* C18 witness: after a final result and its reset, passes over silence
\* have followed without another final result
C18_Witness ==
    /\ finals_since_voice = 1
    /\ ~had_speech
    /\ pc = "loop"
    /\ iter_out = <<[text |-> "", is_final |-> FALSE]>>
    /\ ~iter_err
    /\ since_voice_ms = 700

\* one second of samples on the threshold, then one second below it
VoiceThenSilence ==
    [i \in 1..(2 * sample_rate) |-> IF i <= sample_rate THEN Loud ELSE Quiet]

\* C19, as claimed: once the store holds one second of voice followed by
\* one second of silence, none of it consumed yet by the worker,
\* eventually a result with is_final=true has been
\* emitted and the store has been emptied after it, unless more audio
\* arrives, the pipeline is being stopped or a decode call has failed.
C19_VoiceThenSilenceFinalizes ==
    (/\ audio_buffer = VoiceThenSilence
     /\ processed_samples = 0
     /\ is_processing /\ main_pc = "idle"
     /\ pc \notin {"clear", "reset"})
       ~> \/ (pc = "reset" /\ LastResult.is_final)
          \/ audio_buffer # VoiceThenSilence
          \/ main_pc # "idle"
          \/ iter_err

\* C20, as claimed: a pass whose VAD step reported voice emits its result
\* with is_final=false and goes back to the loop head without clearing the
\* store.
C20_VoicePassNotFinal ==
    [][(pc = "classify" /\ voice_now /\ Emits)
          => /\ ~iter_out'[Len(iter_out')].is_final
             /\ pc' = "loop"
             /\ audio_buffer' = audio_buffer]_vars

\* C21, as claimed: when the worker is blocked in the wait with had_speech
\* set and every sample of the store consumed, then eventually the
\* utterance has been finalized, unless new samples arrive or the pipeline
\* is being stopped.
C21_SilenceTimerWithoutSamples ==
    (/\ is_processing /\ main_pc = "idle"
     /\ pc = "wait_block"
     /\ had_speech
     /\ processed_samples = Len(audio_buffer))
       ~> \/ (pc = "reset" /\ LastResult.is_final)
          \/ Len(audio_buffer) # processed_samples
          \/ main_pc # "idle"

\* C22: an add_audio that trims r samples from the front of the store
\* leaves processed_samples at max(0, processed_samples - r); one that does
\* not trim leaves processed_samples as it was.
C22_TrimShiftsCursor ==
    [][\A pcm_data \in Frames :
          AddAudio(pcm_data) =>
             LET r == Len(audio_buffer) + Len(pcm_data) - CapSamples
             IN  IF r > 0
                 THEN /\ Len(audio_buffer') = CapSamples
                      /\ processed_samples' =
                            IF processed_samples - r > 0
                            THEN processed_samples - r ELSE 0
                 ELSE processed_samples' = processed_samples]_vars

\* C22 witness: the worker had consumed a store full to the cap from its
\* first sample, and one sample has been trimmed since
C22_Witness ==
    /\ pc = "vad"
    /\ Len(work_buf) = CapSamples
    /\ Len(audio_buffer) = CapSamples
    /\ processed_samples = CapSamples - 1

\* C23: a snapshot taken with new data present copies the store from index
\* max(0, processed_samples - one second of samples) to its tail, sets
\* processed_samples to the store's length in the same step, and leaves the
\* store as it is.
C23_SnapshotWindow ==
    [][(pc = "snapshot" /\ pc' # "snapshot"
            /\ Len(audio_buffer) > processed_samples)
          => LET from == IF processed_samples - sample_rate > 0
                         THEN processed_samples - sample_rate ELSE 0
             IN  /\ work_buf' = [i \in 1..(Len(audio_buffer) - from)
                                   |-> audio_buffer[from + i]]
                 /\ processed_samples' = Len(audio_buffer)
                 /\ audio_buffer' = audio_buffer
                 /\ pc' = "min_chunk"]_vars

\* C23 witness: a window that starts inside the store, one second before
\* the cursor, and reaches over new samples to the tail
C23_Witness ==
    /\ pc = "min_chunk"
    /\ processed_samples = Len(audio_buffer)
    /\ Len(work_buf) > sample_rate
    /\ Len(work_buf) < Len(audio_buffer)
    /\ work_buf[1] # work_buf[Len(work_buf)]

\* C24: an iteration that reaches the snapshot with no sample beyond
\* processed_samples goes back to the loop head at once: no decode call, no
\* callback, no error line, and store, cursor, had_speech and
\* last_voice_time are as before.
C24_NoNewDataIsNoOp ==
    [][(pc = "snapshot" /\ pc' # "snapshot"
            /\ Len(audio_buffer) <= processed_samples)
          => /\ pc' = "loop"
             /\ iter_out' = <<>> /\ iter_out = <<>>
             /\ ~iter_err'
             /\ audio_buffer' = audio_buffer
             /\ processed_samples' = processed_samples
             /\ had_speech' = had_speech
             /\ since_voice_ms' = since_voice_ms
             /\ running' /\ should_stop' = should_stop]_vars

\* C24 witness: after a finalization clear the worker has woken on an empty
\* store and is back at the loop head with nothing emitted
C24_Witness ==
    /\ pc = "loop"
    /\ audio_buffer = <<>>
    /\ processed_samples = 0
    /\ finals_since_voice = 1
    /\ iter_out = <<>>
    /\ ~iter_err
    /\ since_voice_ms = 700

\* ---- C25, C26: the locks
\* where each thread reads or writes audio_buffer or processed_samples
AudioStorePositions == {"append"}
WorkerStorePositions == {"pred", "pred_last", "snapshot", "clear"}
MutexHolder == [audio |-> audio_mutex, cv |-> cv_mutex,
                callback |-> callback_mutex]
Mutexes == DOMAIN MutexHolder
Threads == {"main", "audio", "worker"}
Held(t) == {m \in Mutexes : MutexHolder[m] = t}
\* the mutex a thread is about to take, "none" when it is not at a guard
Wants(t) ==
    CASE t = "main" -> IF main_pc = "lock_callback" THEN "callback" ELSE "none"
      [] t = "audio" -> IF cb_pc = "lock_callback" THEN "callback"
                        ELSE IF cb_pc = "lock_audio" THEN "audio" ELSE "none"
      [] t = "worker" -> IF pc = "lock_cv" THEN "cv"
                         ELSE IF pc \in {"lock_pred", "lock_pred_last",
                                         "lock_snapshot", "lock_clear"}
                              THEN "audio" ELSE "none"
\* the thread another thread cannot go on without: the holder of the mutex
\* it wants, the callback in flight for ma_device_stop, the worker for join
WaitsFor(t) ==
    IF Wants(t) # "none" /\ MutexHolder[Wants(t)] \notin {"free", t}
    THEN MutexHolder[Wants(t)]
    ELSE IF t = "main" /\ main_pc = "device_stop" /\ cb_pc # "idle"
    THEN "audio"
    ELSE IF t = "main" /\ main_pc = "join" /\ pc # "done" THEN "worker"
    ELSE "none"
NoWaitCycle ==
    \A t \in Threads :
        LET u == WaitsFor(t)
        IN  u # "none" =>
              /\ WaitsFor(u) # t
              /\ WaitsFor(u) # "none" => WaitsFor(WaitsFor(u)) # t
\* the order the code takes the mutexes in: audio_mutex innermost
LockBefore == {<<"callback", "audio">>, <<"cv", "audio">>}

\* C25: the audio callback thread is at its access to audio_buffer and
\* processed_samples (append and trim) only while it holds audio_mutex, the
\* worker at its accesses (wait predicate, snapshot, clear) only while it
\* holds audio_mutex, the two are never at an access at the same time, and
\* every step of either thread that changes the two is taken by the holder.
C25_StoreAccessUnderLock ==
    /\ [](/\ cb_pc \in AudioStorePositions => audio_mutex = "audio"
          /\ pc \in WorkerStorePositions => audio_mutex = "worker"
          /\ ~(cb_pc \in AudioStorePositions /\ pc \in WorkerStorePositions))
    /\ [][(store_vars' # store_vars /\ main_pc' = main_pc) =>
            \/ cb_pc' # cb_pc /\ pc' = pc /\ audio_mutex = "audio"
            \/ pc' # pc /\ cb_pc' = cb_pc /\ audio_mutex = "worker"]_vars
\* the worker is inside the snapshot block with new samples to copy while
\* the audio callback thread, holding callback_mutex, stands at add_audio's
\* guard
C25_Witness ==
    /\ pc = "snapshot" /\ audio_mutex = "worker"
    /\ Len(audio_buffer) > processed_samples
    /\ cb_pc = "lock_audio" /\ callback_mutex = "audio"

\* C26: the worker does not hold audio_mutex while blocked in the wait,
\* while whisper_full runs or while the callback runs; it holds it only in
\* the predicate, the snapshot and the clear, each of which ends without
\* waiting for anything, so add_audio at its guard waits for one of those
\* only; a thread takes a mutex only after the ones ordered before it, and
\* no threads wait for each other in a cycle.
C26_NoLockAcrossWaitOrDecode ==
    /\ pc \in {"wait_unsat", "blocked", "decode", "callback", "callback_err"}
          => audio_mutex # "worker"
    /\ audio_mutex = "worker" => pc \in WorkerStorePositions
    /\ pc \in WorkerStorePositions =>
          ENABLED (RunPred \/ RunPredLast \/ RunSnapshot \/ RunClear)
    /\ (cb_pc = "lock_audio" /\ audio_mutex # "free") =>
          pc \in WorkerStorePositions
    /\ \A t \in Threads : \A h \in Held(t) :
          Wants(t) # "none" => <<h, Wants(t)>> \in LockBefore
    /\ NoWaitCycle
\* whisper_full is running while the audio callback thread is inside
\* add_audio's critical section
C26_Witness ==
    /\ pc = "decode"
    /\ cb_pc = "append" /\ audio_mutex = "audio" /\ callback_mutex = "audio"

\* C27: a worker blocked in wait_for while a stop is requested has been
\* notified: the stop wakes it, it does not stay blocked until the timeout.
C27_StopWakesWait ==
    (pc = "wait_block" /\ should_stop /\ main_pc = "join") => cv_notified

\* C28: when a pass whose decode failed ends, had_speech and last_voice_time
\* do not carry that pass's VAD decision: a failed pass that heard voice has
\* not set had_speech and has not refreshed last_voice_time.
C28_FailedPassKeepsUtteranceState ==
    (pc = "loop" /\ iter_err /\ voice_now) =>
        ~(had_speech /\ since_voice_ms = 0)

\* C29: the contents of the store change only by add_audio (the frame
\* appended, the oldest samples trimmed at the cap), by the clear of a pass
\* that has just emitted a result with is_final = true, which empties it,
\* and by stop_engine destroying the engine; every other step of the worker
\* (a non-final result, a window too short, no new data, a failed decode)
\* leaves them as they were.
C29_ClearedOnlyByFinalPass ==
    [][/\ audio_buffer' # audio_buffer =>
            \/ /\ ClearStep
               /\ iter_out # <<>> /\ LastResult.is_final
               /\ audio_buffer' = <<>>
            \/ StopStep
            \/ \E pcm_data \in Frames :
                  LET all == audio_buffer \o pcm_data
                  IN  audio_buffer' = Newest(all, Min(Len(all), CapSamples))
       /\ (pc' # pc /\ pc # "none" /\ ~ClearStep /\ ~StopStep)
            => audio_buffer' = audio_buffer]_vars
\* a pass emitted a non-final result after voice and went back to the loop
\* head with the whole store kept and consumed
C29_Witness ==
    /\ pc = "loop"
    /\ iter_out # <<>> /\ ~LastResult.is_final /\ ~iter_err
    /\ had_speech
    /\ Len(audio_buffer) > HalfSecond
    /\ processed_samples = Len(audio_buffer)

\* C30: a stop issued at any time after start_engine returned is not lost:
\* once stop_engine has called InferenceEngine::stop and waits in the join,
\* the worker leaves its loop and the join returns, also when the worker had
\* not yet run the opening statements of run().
C30_StopNeverLost == (main_pc = "join") ~> (main_pc # "join")

\* C31: the finalization clear removes no sample that was never in a decoded
\* window: when the clear runs, every sample of the store is one the last
\* snapshot consumed, none has been appended behind the cursor since.
C31_ClearDiscardsOnlyDecoded ==
    [][ClearStep => Len(audio_buffer) <= processed_samples]_vars

\* ---- C32
\* this step is the snapshot taking a window
WindowStep == pc = "snapshot" /\ pc' = "min_chunk"

\* C32: a window shorter than half a second starts at index 0 of the store
\* (it is the whole store, and the cursor it leaves is below half a second),
\* and the window of the next iteration that has new data starts at index 0
\* as well and reaches to the end of the store, so it contains every sample
\* the skipped iteration consumed that trimming has left in the store.
C32_SkippedSamplesReappear ==
    [][WindowStep =>
         /\ Len(work_buf') < HalfSecond =>
               /\ work_buf' = audio_buffer
               /\ processed_samples' < HalfSecond
               /\ skipped_samples' = Len(work_buf')
         /\ skipped_samples > 0 =>
               /\ skipped_samples <= processed_samples
               /\ Len(work_buf') > skipped_samples
               /\ work_buf' = audio_buffer]_vars
\* an iteration was skipped with one sample consumed; the next snapshot has
\* taken a window of at least half a second that begins with that sample
C32_Witness ==
    /\ pc = "min_chunk"
    /\ skipped_samples > 0
    /\ Len(work_buf) >= HalfSecond
    /\ Len(work_buf) > skipped_samples
    /\ processed_samples = Len(audio_buffer)
    /\ work_buf = audio_buffer

====
